---- MODULE Spec2Model ----
(***************************************************************************)
(* Job aggregation agent: the structuring engine (parser.py and its        *)
(* monolithic twin in main.py), identity assignment (process_post), the    *)
(* SQLite store (database.py / main.py JobDatabase) and the orchestrator   *)
(* (JobAggregator.aggregate), for the two programs of the repository:      *)
(* master.py (modular pipeline) and main.py (monolith).                    *)
(*                                                                         *)
(* Python strings are sequences of one-character strings, so that strip(), *)
(* concatenation inside f-strings and case are computed, not assumed.      *)
(* hashlib.md5 is taken to be collision free: the digest is a record       *)
(* wrapping the exact byte string that was hashed.                         *)
(***************************************************************************)
EXTENDS Integers, Sequences, FiniteSets, Bags, TLC

VARIABLES prog, pc, srcIdx, messages, msgIdx, jobs, duplicates,
          new_jobs_count, total_messages_processed, total_valid_jobs,
          requests, last, summary, dedupRuns, fetched, fetchEnv, exc, ptext, presult,
          html, clock, runs, conn, db_lock, reach

\* The state of the extractor on its own, and of concurrent insert_job calls
xvars == <<html, clock, runs>>

cvars == <<conn, db_lock>>

vars == <<prog, pc, srcIdx, messages, msgIdx, jobs, duplicates,
          new_jobs_count, total_messages_processed, total_valid_jobs,
          requests, last, summary, dedupRuns, fetched, fetchEnv, exc, ptext, presult,
          html, clock, runs, conn, db_lock, reach>>

(***************************************************************************)
(* Bounds                                                                  *)
(***************************************************************************)
NumSources == 2

MaxMsgs == 2

MaxTotalMsgs == 2

MaxTextLen == 5

(***************************************************************************)
(* Python strings and values                                               *)
(***************************************************************************)
\* str.strip() on the left: drop leading whitespace
RECURSIVE lstrip(_)
lstrip(s) == IF s # <<>> /\ Head(s) = " " THEN lstrip(Tail(s)) ELSE s

\* str.strip() on the right: drop trailing whitespace
RECURSIVE rstrip(_)
rstrip(s) == IF s # <<>> /\ s[Len(s)] = " " THEN rstrip(SubSeq(s, 1, Len(s) - 1)) ELSE s

\* str.strip()
strip(s) == rstrip(lstrip(s))

\* A JSON / Python value: a string, true, false, or null (Python None);
\* "absent" marks a key that the dict does not hold.
JStr(s) == [ty |-> "str", s |-> s]

JTrue == [ty |-> "true", s |-> <<>>]

JFalse == [ty |-> "false", s |-> <<>>]

None == [ty |-> "null", s |-> <<>>]

Absent == [ty |-> "absent", s |-> <<>>]

\* Python truthiness (bool(v)) of a value
truthy(v) == v.ty = "true" \/ (v.ty = "str" /\ v.s # <<>>)

\* Python str(v), also what an f-string interpolates
str(v) ==
    CASE v.ty = "str" -> v.s
      [] v.ty = "true" -> <<"T", "r", "u", "e">>
      [] v.ty = "false" -> <<"F", "a", "l", "s", "e">>
      [] OTHER -> <<"N", "o", "n", "e">>

\* The keys of the provider's JSON object that the pipeline reads
Keys == {"valid", "role", "company_name", "location", "description"}

\* dict.get(k): None when the key is absent
get(d, k) == IF d[k].ty = "absent" THEN None ELSE d[k]

\* dict.get(k, default): the default only when the key is absent
getd(d, k, default) == IF d[k].ty = "absent" THEN default ELSE d[k]

\* the empty dict {} (falsy in Python)
EmptyDict == [k \in Keys |-> Absent]

\* hashlib.md5(s.encode()).hexdigest(), collision free
md5(s) == [hexdigest |-> s]

(***************************************************************************)
(* Provider response text: a sequence of tokens.  A token is an opening    *)
(* brace, a closing brace, a run of prose without braces, or one           *)
(* "key": value member of a JSON object.                                   *)
(***************************************************************************)
LBrace == [t |-> "{", k |-> "", v |-> None]

RBrace == [t |-> "}", k |-> "", v |-> None]

Prose == [t |-> "prose", k |-> "", v |-> None]

Member(k, v) == [t |-> "member", k |-> k, v |-> v]

\* response_text.find('{'): 0-based index of the first opening brace, or -1
find(text) ==
    IF \E i \in 1..Len(text) : text[i] = LBrace
    THEN (CHOOSE i \in 1..Len(text) :
            text[i] = LBrace /\ \A j \in 1..(i - 1) : text[j] # LBrace) - 1
    ELSE -1

\* response_text.rfind('}'): 0-based index of the last closing brace, or -1
rfind(text) ==
    IF \E i \in 1..Len(text) : text[i] = RBrace
    THEN (CHOOSE i \in 1..Len(text) :
            text[i] = RBrace /\ \A j \in (i + 1)..Len(text) : text[j] # RBrace) - 1
    ELSE -1

\* response_text[start_idx:end_idx]
slice(text, start_idx, end_idx) == SubSeq(text, start_idx + 1, end_idx)

\* json.loads succeeds on a span that is one object: '{' members '}'
json_ok(span) ==
    /\ Len(span) >= 2
    /\ span[1] = LBrace
    /\ span[Len(span)] = RBrace
    /\ \A i \in 2..(Len(span) - 1) : span[i].t = "member"

\* json.loads(span) for a span json_ok accepts: the dict of its members,
\* a repeated key keeping its last value
json_loads(span) ==
    [k \in Keys |->
        LET idx == {i \in 2..(Len(span) - 1) : span[i].k = k}
        IN IF idx = {} THEN Absent
           ELSE span[CHOOSE i \in idx : \A j \in idx : j <= i].v]

(***************************************************************************)
(* Structuring engine                                                      *)
(***************************************************************************)
\* What one requests.post to the provider can come to: a timeout, a
\* connection error, a non-200 status, a 200 whose body response.json()
\* cannot use, or a 200 carrying the response text.
Outcome(kind, text) == [kind |-> kind, text |-> text]

\* "return None" of the structuring engine; sent counts the requests.post
\* calls the call made
RetNone == [ret |-> "None", d |-> EmptyDict, sent |-> 1]

\* "return parsed"
RetDict(d) == [ret |-> "dict", d |-> d, sent |-> 1]

\* an exception leaving the function
RetRaise == [ret |-> "raise", d |-> EmptyDict, sent |-> 1]

\* extract_checked with end_idx taken as rfind('}'), the closing brace left out
extract_checked_short(response_text) ==
    LET start_idx == find(response_text)
        end_idx == rfind(response_text)
    IN IF start_idx < 0 \/ end_idx <= start_idx THEN RetNone
       ELSE LET json_str == slice(response_text, start_idx, end_idx)
            IN IF ~json_ok(json_str) THEN RetNone
               ELSE LET parsed == json_loads(json_str)
                    IN IF ~truthy(getd(parsed, "valid", JFalse)) THEN RetNone
                       ELSE RetDict(parsed)

\* parser.py: the JSON span of a 200 response, gated by parsed.get('valid')
extract_checked(response_text) ==
    LET start_idx == find(response_text)
        end_idx == rfind(response_text) + 1
    IN IF start_idx < 0 \/ end_idx <= start_idx THEN RetNone
       ELSE LET json_str == slice(response_text, start_idx, end_idx)
            IN IF ~json_ok(json_str) THEN RetNone
               ELSE LET parsed == json_loads(json_str)
                    IN IF ~truthy(getd(parsed, "valid", JFalse)) THEN RetNone
                       ELSE RetDict(parsed)

\* main.py: the JSON span of a 200 response, returned as parsed
extract_unchecked(response_text) ==
    LET start_idx == find(response_text)
        end_idx == rfind(response_text) + 1
    IN IF start_idx >= 0 /\ end_idx > start_idx
       THEN LET json_str == slice(response_text, start_idx, end_idx)
            IN IF json_ok(json_str) THEN RetDict(json_loads(json_str)) ELSE RetNone
       ELSE RetNone

\* parse_job_post without the handler for requests.exceptions.Timeout
parse_job_post_timeout_raises(p, o) ==
    CASE o.kind = "timeout" -> RetRaise
      [] o.kind = "connection_error" -> RetNone
      [] o.kind = "bad_status" -> RetNone
      [] o.kind = "bad_body" -> RetNone
      [] OTHER -> IF p = "master" THEN extract_checked(o.text)
                  ELSE extract_unchecked(o.text)

\* parse_job_post that repeats the request once after a timeout
parse_job_post_retry(p, o) ==
    CASE o.kind = "timeout" -> [ret |-> "None", d |-> EmptyDict, sent |-> 2]
      [] o.kind = "connection_error" -> RetNone
      [] o.kind = "bad_status" -> RetNone
      [] o.kind = "bad_body" -> RetNone
      [] OTHER -> IF p = "master" THEN extract_checked(o.text)
                  ELSE extract_unchecked(o.text)

\* OllamaJobParser.parse_job_post of program p on provider outcome o
parse_job_post(p, o) ==
    CASE o.kind = "timeout" -> RetNone
      [] o.kind = "connection_error" -> RetNone
      [] o.kind = "bad_status" -> RetNone
      [] o.kind = "bad_body" -> RetNone
      [] OTHER -> IF p = "master" THEN extract_checked(o.text)
                  ELSE extract_unchecked(o.text)

(***************************************************************************)
(* Identity assignment                                                     *)
(***************************************************************************)
Unknown == <<"U", "n", "k", "n", "o", "w", "n">>

NotSpecified == <<"N", "o", "t", " ", "s", "p", "e", "c", "i", "f", "i", "e", "d">>

\* SQL NULL / Python None in a column that otherwise holds a string
NULL == <<"NULL">>

JobPost(post_id, role, company_name, location, description, source, date_posted) ==
    [post_id |-> post_id, role |-> role, company_name |-> company_name,
     location |-> location, description |-> description, source |-> source,
     date_posted |-> date_posted]

NoJob == JobPost(md5(<<>>), <<>>, <<>>, <<>>, None, 0, <<>>)

\* master.py: the string hashed into post_id
hash_input_master(parsed_data, timestamp) ==
    str(get(parsed_data, "company_name")) \o str(get(parsed_data, "role")) \o timestamp

\* main.py: the string hashed into post_id
hash_input_main(parsed_data) ==
    str(get(parsed_data, "company_name")) \o str(get(parsed_data, "role"))
        \o str(get(parsed_data, "location"))

\* master.py JobAggregator.process_post, after the parser returned r
process_post_master(r, timestamp, source_name) ==
    IF r.ret = "raise" THEN [ret |-> "raise", job |-> NoJob]
    ELSE IF r.ret = "None" \/ r.d = EmptyDict \/ ~truthy(get(r.d, "valid"))
    THEN [ret |-> "None", job |-> NoJob]
    ELSE [ret |-> "job",
          job |-> JobPost(md5(hash_input_master(r.d, timestamp)),
                          strip(str(getd(r.d, "role", JStr(Unknown)))),
                          strip(str(getd(r.d, "company_name", JStr(Unknown)))),
                          strip(str(getd(r.d, "location", JStr(NotSpecified)))),
                          get(r.d, "description"),
                          source_name,
                          timestamp)]

\* main.py JobAggregator.process_post, after the parser returned r; now is
\* the reading of datetime.now()
process_post_main(r, now, source_name) ==
    IF r.ret = "raise" THEN [ret |-> "raise", job |-> NoJob]
    ELSE IF r.ret = "None" \/ r.d = EmptyDict THEN [ret |-> "None", job |-> NoJob]
    ELSE IF ~truthy(get(r.d, "role")) \/ ~truthy(get(r.d, "company_name"))
    THEN [ret |-> "None", job |-> NoJob]
    ELSE [ret |-> "job",
          job |-> JobPost(md5(hash_input_main(r.d)),
                          strip(str(getd(r.d, "role", JStr(Unknown)))),
                          strip(str(getd(r.d, "company_name", JStr(Unknown)))),
                          strip(str(getd(r.d, "location", JStr(Unknown)))),
                          get(r.d, "description"),
                          source_name,
                          now)]

(***************************************************************************)
(* Store                                                                   *)
(***************************************************************************)
\* The row INSERT writes for a job; id is the AUTOINCREMENT key
Row(id, job) == [id |-> id, job |-> job]

\* the jobs table without the UNIQUE constraint on post_id
unique_violation_off(js, job) == FALSE

\* post_id TEXT UNIQUE
unique_violation(js, job) == \E i \in 1..Len(js) : js[i].job.post_id = job.post_id

\* role / company_name NOT NULL, and in database.py date_posted NOT NULL
notnull_violation(p, job) ==
    \/ job.role = NULL
    \/ job.company_name = NULL
    \/ (p = "master" /\ job.date_posted = NULL)

\* insert_job answering True for a constraint violation as well
insert_job_always_true(p, js, job, dbok) ==
    IF ~dbok THEN [ret |-> "raise", jobs |-> js]
    ELSE IF notnull_violation(p, job) \/ unique_violation(js, job)
    THEN [ret |-> "True", jobs |-> js]
    ELSE [ret |-> "True", jobs |-> Append(js, Row(Len(js) + 1, job))]

\* JobDatabase.insert_job on table js; dbok is false when SQLite raises an
\* error that is not an IntegrityError (database locked, not writable)
insert_job(p, js, job, dbok) ==
    IF ~dbok THEN [ret |-> "raise", jobs |-> js]
    ELSE IF notnull_violation(p, job) \/ unique_violation(js, job)
    THEN [ret |-> "False", jobs |-> js]
    ELSE [ret |-> "True", jobs |-> Append(js, Row(Len(js) + 1, job))]

\* JobDatabase.get_job_count
get_job_count(js) == Len(js)

(***************************************************************************)
(* Inputs: what the sources deliver and what the provider answers          *)
(***************************************************************************)
\* Header timestamps of the messages a source delivers
Timestamps == {<<"1">>, <<"2">>}

\* A message of fetch_posts: {text, timestamp}
Messages == [text : {"m"}, timestamp : Timestamps]

\* Lists of messages one fetch_posts call can return
MessageLists == UNION {[1..n -> Messages] : n \in 0..MaxMsgs}

\* dict of a JSON object with the given members
Dict(valid, company_name, role, location, description) ==
    [k \in Keys |->
        CASE k = "valid" -> valid
          [] k = "company_name" -> company_name
          [] k = "role" -> role
          [] k = "location" -> location
          [] OTHER -> description]

KeyOrder == <<"valid", "role", "company_name", "location", "description">>

\* The members of a dict, as the tokens of its JSON text
RECURSIVE MembersOf(_, _)
MembersOf(d, i) ==
    IF i > Len(KeyOrder) THEN <<>>
    ELSE (IF d[KeyOrder[i]].ty = "absent" THEN <<>>
          ELSE <<Member(KeyOrder[i], d[KeyOrder[i]])>>) \o MembersOf(d, i + 1)

\* Provider text: prose, the object, prose
Wrapped(d) == <<Prose, LBrace>> \o MembersOf(d, 1) \o <<RBrace, Prose>>

\* Objects the provider answers with
Objects ==
    { Dict(JTrue, JStr(<<"A">>), JStr(<<"B", "C">>), JStr(<<"L">>), JStr(<<"x">>)),
      Dict(JTrue, JStr(<<"A">>), JStr(<<"B", "C">>), JStr(<<"L">>), JStr(<<"y">>)),
      Dict(JTrue, JStr(<<"A", "B">>), JStr(<<"C">>), JStr(<<"L">>), JStr(<<"x">>)),
      Dict(JTrue, JStr(<<"a">>), JStr(<<"B", "C">>), JStr(<<"L">>), JStr(<<"x">>)),
      Dict(JTrue, JStr(<<" ", "A">>), JStr(<<"B", "C">>), JStr(<<"L">>), JStr(<<"x">>)),
      Dict(JFalse, Absent, Absent, Absent, Absent),
      Dict(Absent, JStr(<<"A">>), JStr(<<"B", "C">>), JStr(<<"L">>), JStr(<<"x">>)),
      Dict(JStr(<<"n", "o">>), JStr(<<"A">>), JStr(<<"B", "C">>), JStr(<<"L">>), JStr(<<"x">>)),
      Dict(JTrue, JStr(<<"A">>), Absent, JStr(<<"L">>), JStr(<<"x">>)),
      Dict(JTrue, JStr(<<"A">>), JStr(<<" ">>), JStr(<<"L">>), JStr(<<"x">>)) }

\* Response texts that hold no parseable object
NoObjectTexts ==
    { <<>>, <<Prose>>, <<RBrace, Prose, LBrace>>, <<LBrace, Prose, RBrace>> }

\* Everything one provider request can come to
ProviderOutcomes ==
    {Outcome(k, <<>>) : k \in {"timeout", "connection_error", "bad_status", "bad_body"}}
    \cup {Outcome("ok", Wrapped(d)) : d \in Objects}
    \cup {Outcome("ok", t) : t \in NoObjectTexts}

\* Digits of the clock
Digit(n) == CASE n = 0 -> "0" [] n = 1 -> "1" [] n = 2 -> "2" [] n = 3 -> "3"
              [] n = 4 -> "4" [] n = 5 -> "5" [] n = 6 -> "6" [] n = 7 -> "7"
              [] n = 8 -> "8" [] OTHER -> "9"

\* datetime.now().isoformat() while the n-th message is processed
now(n) == <<"T", Digit(n)>>

(***************************************************************************)
(* Source adapter                                                          *)
(***************************************************************************)
\* WhatsAppChannelAdapter.fetch_posts: env is how the browser session went,
\* extracted what the extractor found in the saved page
fetch_posts(env, extracted) ==
    CASE env = "login_error" -> [raised |-> FALSE, posts |-> <<>>]
      [] env = "scrape_error" -> [raised |-> FALSE, posts |-> <<>>]
      [] env = "quit_error" -> [raised |-> TRUE, posts |-> <<>>]
      [] OTHER -> [raised |-> FALSE, posts |-> extracted]

FetchEnvs == {"ok", "login_error", "scrape_error", "quit_error"}

(***************************************************************************)
(* Orchestrator                                                            *)
(***************************************************************************)
NoOutcome == Outcome("none", <<>>)

NoLast == [o |-> NoOutcome, timestamp |-> <<>>, result |-> "none", job |-> NoJob]

NoSummary == [emitted |-> FALSE, processed |-> 0, valid |-> 0, new |-> 0, total |-> 0]

NoResult == [ret |-> "unset", d |-> EmptyDict, sent |-> 0]

NoDocument == [kind |-> "none", nodes |-> <<>>]

\* Where aggregate goes after source i: the next source, else the tail
AfterSource(p, i) ==
    IF i < NumSources THEN "fetch" ELSE IF p = "main" THEN "dedup" ELSE "summary"

Init ==
    /\ prog \in {"master", "main"}
    /\ reach = <<>>
    /\ pc = "check"
    /\ srcIdx = 1
    /\ messages = <<>>
    /\ msgIdx = 1
    /\ jobs = <<>>
    /\ duplicates = EmptyBag
    /\ new_jobs_count = 0
    /\ total_messages_processed = 0
    /\ total_valid_jobs = 0
    /\ requests = 0
    /\ last = NoLast
    /\ summary = NoSummary
    /\ dedupRuns = 0
    /\ fetched = 0
    /\ fetchEnv = "none"
    /\ exc = "none"
    /\ ptext = <<>>
    /\ presult = NoResult
    /\ html = NoDocument
    /\ clock = <<>>
    /\ runs = <<>>
    /\ conn = <<>>
    /\ db_lock = 0

\* __main__: the provider reachability check before the run
\* a check whose result is not looked at
after_check_ignored(r) == "fetch"

\* __main__: a 200 goes on to initialize_aggregator() and aggregate(); any
\* other status and ConnectionError exit(1), another exception ends the
\* process
after_check(r) == IF r = "200" THEN "fetch" ELSE "exit"

CheckOllama ==
    /\ pc = "check"
    /\ \E r \in {"200", "bad_status", "connection_error", "other_error"} :
         /\ pc' = after_check(r)
         /\ reach' = Append(reach, r)
    /\ UNCHANGED <<prog, srcIdx, messages, msgIdx, jobs, duplicates, new_jobs_count,
                   total_messages_processed, total_valid_jobs, requests, last,
                   summary, dedupRuns, fetched, fetchEnv, exc, ptext, presult,
                   xvars, cvars>>

\* aggregate: messages = source.fetch_posts() for source srcIdx
Fetch ==
    /\ pc = "fetch"
    /\ \E env \in FetchEnvs, extracted \in MessageLists :
         LET f == fetch_posts(env, extracted)
         IN /\ total_messages_processed + Len(f.posts) <= MaxTotalMsgs
            /\ env # "ok" => extracted = <<>>
            /\ fetched' = fetched + Len(f.posts)
            /\ fetchEnv' = env
            /\ IF f.raised
               THEN /\ pc' = "aborted"
                    /\ exc' = "fetch_posts"
                    /\ UNCHANGED <<messages, msgIdx, srcIdx>>
               ELSE /\ messages' = f.posts
                    /\ msgIdx' = 1
                    /\ exc' = exc
                    /\ IF f.posts = <<>>
                       THEN /\ pc' = AfterSource(prog, srcIdx)
                            /\ srcIdx' = IF srcIdx < NumSources THEN srcIdx + 1 ELSE srcIdx
                       ELSE /\ pc' = "msg"
                            /\ UNCHANGED srcIdx
    /\ UNCHANGED <<prog, reach, jobs, duplicates, new_jobs_count, total_messages_processed,
                   total_valid_jobs, requests, last, summary, dedupRuns, ptext, presult,
                   xvars, cvars>>

\* process_post of program p
process_post(p, o, timestamp, n, source_name) ==
    IF p = "master" THEN process_post_master(parse_job_post(p, o), timestamp, source_name)
    ELSE process_post_main(parse_job_post(p, o), now(n), source_name)

\* aggregate: one iteration of the message loop; messages holds what the
\* loop has not reached yet and msgIdx is the idx of enumerate(messages, 1)
ProcessMsg ==
    /\ pc = "msg"
    /\ messages # <<>>
    /\ \E o \in ProviderOutcomes, dbok \in BOOLEAN :
         LET msg == Head(messages)
             r == parse_job_post(prog, o)
             j == process_post(prog, o, msg.timestamp, total_messages_processed + 1, srcIdx)
             ins == insert_job(prog, jobs, j.job, dbok)
             more == Len(messages) > 1
         IN /\ total_messages_processed' = total_messages_processed + 1
            /\ requests' = requests + r.sent
            /\ IF j.ret = "raise"
               THEN /\ pc' = "aborted"
                    /\ exc' = "parse_job_post"
                    /\ last' = [o |-> o, timestamp |-> msg.timestamp, result |-> "RAISED", job |-> NoJob]
                    /\ UNCHANGED <<jobs, new_jobs_count, total_valid_jobs, msgIdx, srcIdx,
                                   messages>>
               ELSE IF j.ret = "None"
               THEN /\ dbok
                    /\ exc' = exc
                    /\ last' = [o |-> o, timestamp |-> msg.timestamp, result |-> "REJECTED", job |-> NoJob]
                    /\ UNCHANGED <<jobs, new_jobs_count, total_valid_jobs>>
                    /\ messages' = Tail(messages)
                    /\ msgIdx' = msgIdx + 1
                    /\ pc' = IF more THEN "msg" ELSE AfterSource(prog, srcIdx)
                    /\ srcIdx' = IF ~more /\ srcIdx < NumSources THEN srcIdx + 1 ELSE srcIdx
               ELSE /\ total_valid_jobs' = IF prog = "master" THEN total_valid_jobs + 1
                                           ELSE total_valid_jobs
                    /\ jobs' = ins.jobs
                    /\ IF ins.ret = "raise"
                       THEN /\ pc' = "aborted"
                            /\ exc' = "insert_job"
                            /\ last' = [o |-> o, timestamp |-> msg.timestamp, result |-> "FATAL", job |-> j.job]
                            /\ UNCHANGED <<new_jobs_count, msgIdx, srcIdx, messages>>
                       ELSE /\ exc' = exc
                            /\ new_jobs_count' = IF ins.ret = "True" THEN new_jobs_count + 1
                                                 ELSE new_jobs_count
                            /\ last' = [o |-> o, timestamp |-> msg.timestamp,
                                        result |-> IF ins.ret = "True" THEN "INSERTED" ELSE "DUPLICATE",
                                        job |-> j.job]
                            /\ messages' = Tail(messages)
                            /\ msgIdx' = msgIdx + 1
                            /\ pc' = IF more THEN "msg" ELSE AfterSource(prog, srcIdx)
                            /\ srcIdx' = IF ~more /\ srcIdx < NumSources THEN srcIdx + 1 ELSE srcIdx
    /\ UNCHANGED <<prog, reach, duplicates, summary, dedupRuns, fetched, fetchEnv,
                   ptext, presult,
                   xvars, cvars>>

\* deduplicate_jobs(threshold = 0.8), in tenths
DefaultThreshold == 8

\* deduplicate_jobs with the join on j1.id != j2.id
deduplicate_jobs_both_ways(js, threshold) ==
    LET pairs == {pr \in (1..Len(js)) \X (1..Len(js)) :
                    /\ js[pr[1]].id # js[pr[2]].id
                    /\ js[pr[1]].job.company_name = js[pr[2]].job.company_name
                    /\ js[pr[1]].job.role = js[pr[2]].job.role
                    /\ js[pr[1]].job.location = js[pr[2]].job.location}
    IN SetToBag({[original_post_id |-> js[pr[1]].job.post_id,
                  duplicate_post_id |-> js[pr[2]].job.post_id,
                  similarity_score |-> threshold] : pr \in pairs})

\* main.py JobDatabase.deduplicate_jobs: one link per pair of rows j1.id < j2.id
\* that agree on company_name, role and location
deduplicate_jobs(js, threshold) ==
    LET pairs == {pr \in (1..Len(js)) \X (1..Len(js)) :
                    /\ js[pr[1]].id < js[pr[2]].id
                    /\ js[pr[1]].job.company_name = js[pr[2]].job.company_name
                    /\ js[pr[1]].job.role = js[pr[2]].job.role
                    /\ js[pr[1]].job.location = js[pr[2]].job.location}
    IN SetToBag({[original_post_id |-> js[pr[1]].job.post_id,
                  duplicate_post_id |-> js[pr[2]].job.post_id,
                  similarity_score |-> threshold] : pr \in pairs})

\* a pass that deletes the later row of every linked pair
jobs_after_dedup_pruned(js) ==
    SelectSeq(js, LAMBDA r :
        ~ \E i \in 1..Len(js) :
            /\ js[i].id < r.id
            /\ js[i].job.company_name = r.job.company_name
            /\ js[i].job.role = r.job.role
            /\ js[i].job.location = r.job.location)

\* main.py JobDatabase.deduplicate_jobs: the jobs table after the pass, which
\* only SELECTs from it
jobs_after_dedup(js) == js

\* main.py aggregate: the deduplication pass after the last source
Dedup ==
    /\ pc = "dedup"
    /\ duplicates' = duplicates (+) deduplicate_jobs(jobs, DefaultThreshold)
    /\ jobs' = jobs_after_dedup(jobs)
    /\ dedupRuns' = dedupRuns + 1
    /\ pc' = "summary"
    /\ UNCHANGED <<prog, reach, srcIdx, messages, msgIdx, new_jobs_count,
                   total_messages_processed, total_valid_jobs, requests, last,
                   summary, fetched, fetchEnv, exc, ptext, presult,
                   xvars, cvars>>

\* aggregate: the summary block and the return
Summary ==
    /\ pc = "summary"
    /\ summary' = [emitted |-> TRUE, processed |-> total_messages_processed,
                   valid |-> total_valid_jobs, new |-> new_jobs_count,
                   total |-> get_job_count(jobs)]
    /\ pc' = "done"
    /\ UNCHANGED <<prog, reach, srcIdx, messages, msgIdx, jobs, duplicates, new_jobs_count,
                   total_messages_processed, total_valid_jobs, requests, last,
                   dedupRuns, fetched, fetchEnv, exc, ptext, presult,
                   xvars, cvars>>

Next == CheckOllama \/ Fetch \/ ProcessMsg \/ Dedup \/ Summary

Spec == Init /\ [][Next]_vars

(***************************************************************************)
(* The structuring engine on its own: every response text of at most       *)
(* MaxTextLen tokens, handed to parse_job_post as the body of a 200.       *)
(***************************************************************************)
TokenAlphabet ==
    {LBrace, RBrace, Prose, Member("valid", JTrue), Member("valid", JFalse),
     Member("role", JStr(<<"B">>))}

Texts == UNION {[1..n -> TokenAlphabet] : n \in 0..MaxTextLen}

InitParse ==
    /\ prog \in {"master", "main"}
    /\ reach = <<>>
    /\ pc = "parse"
    /\ srcIdx = 1
    /\ messages = <<>>
    /\ msgIdx = 1
    /\ jobs = <<>>
    /\ duplicates = EmptyBag
    /\ new_jobs_count = 0
    /\ total_messages_processed = 0
    /\ total_valid_jobs = 0
    /\ requests = 0
    /\ last = NoLast
    /\ summary = NoSummary
    /\ dedupRuns = 0
    /\ fetched = 0
    /\ fetchEnv = "none"
    /\ exc = "none"
    /\ ptext \in Texts
    /\ presult = NoResult
    /\ html = NoDocument
    /\ clock = <<>>
    /\ runs = <<>>
    /\ conn = <<>>
    /\ db_lock = 0

\* One parse_job_post call whose request returned 200 with text ptext
Parse ==
    /\ pc = "parse"
    /\ presult' = parse_job_post(prog, Outcome("ok", ptext))
    /\ pc' = "parsed"
    /\ UNCHANGED <<prog, reach, srcIdx, messages, msgIdx, jobs, duplicates, new_jobs_count,
                   total_messages_processed, total_valid_jobs, requests, last,
                   summary, dedupRuns, fetched, fetchEnv, exc, ptext,
                   xvars, cvars>>

NextParse == Parse

SpecParse == InitParse /\ [][NextParse]_vars

(***************************************************************************)
(* Timestamps (utils.py).  A header timestamp string is a record: a date   *)
(* written a/b/year with a time of day, a bare time of day, words that are *)
(* no date, or blanks; marks says whether it carries U+200E / U+200F.      *)
(***************************************************************************)
TsString(kind, a, b, marks) == [kind |-> kind, a |-> a, b |-> b, marks |-> marks]

\* ts_str = None
NoTs == TsString("none", 0, 0, FALSE)

\* ts_str = ''
EmptyTs == TsString("empty", 0, 0, FALSE)

\* bool(ts_str)
ts_truthy(s) == s.kind \notin {"none", "empty"}

\* str.strip() of a timestamp string
ts_strip(s) == IF s.kind = "blank" THEN EmptyTs ELSE s

\* .replace(U+200E, '').replace(U+200F, '')
remove_marks(s) == [s EXCEPT !.marks = FALSE]

\* The values a message's timestamp takes: an ISO-8601 date-time (month and
\* day kept), the raw string, or None
IsoTs(m, d) == [ty |-> "iso", m |-> m, d |-> d, raw |-> NoTs]

RawTs(s) == [ty |-> "raw", m |-> 0, d |-> 0, raw |-> s]

NoneTs == [ty |-> "none", m |-> 0, d |-> 0, raw |-> NoTs]

\* dateutil.parser.parse(s, dayfirst = dayfirst, fuzzy = True) on the day
\* today: a bare time takes today's date; of a/b a first field above 12 is
\* the day, else b is the month only when dayfirst asks for it and b can be
\* one; bidi marks are skipped as unknown tokens; no date at all raises
dateutil_parse(s, dayfirst, today) ==
    CASE s.kind = "time" -> [ok |-> TRUE, m |-> today.m, d |-> today.d]
      [] s.kind = "date" ->
            IF s.a > 12
            THEN IF s.b <= 12 THEN [ok |-> TRUE, m |-> s.b, d |-> s.a]
                 ELSE [ok |-> FALSE, m |-> 0, d |-> 0]
            ELSE IF dayfirst /\ s.b <= 12 THEN [ok |-> TRUE, m |-> s.b, d |-> s.a]
                 ELSE [ok |-> TRUE, m |-> s.a, d |-> s.b]
      [] OTHER -> [ok |-> FALSE, m |-> 0, d |-> 0]

\* try_parse_datetime with the loop running over (True, False)
try_parse_datetime_dayfirst_first(dt_str, today) ==
    IF ~ ts_truthy(dt_str) THEN NoneTs
    ELSE LET s == remove_marks(ts_strip(dt_str))
             first == dateutil_parse(s, TRUE, today)
             second == dateutil_parse(s, FALSE, today)
         IN IF first.ok THEN IsoTs(first.m, first.d)
            ELSE IF second.ok THEN IsoTs(second.m, second.d)
            ELSE NoneTs

\* utils.try_parse_datetime: for dayfirst in (False, True), the first parse
\* that succeeds, as isoformat(); None when the string is empty or no parse
\* succeeds
try_parse_datetime(dt_str, today) ==
    IF ~ ts_truthy(dt_str) THEN NoneTs
    ELSE LET s == remove_marks(ts_strip(dt_str))
             first == dateutil_parse(s, FALSE, today)
             second == dateutil_parse(s, TRUE, today)
         IN IF first.ok THEN IsoTs(first.m, first.d)
            ELSE IF second.ok THEN IsoTs(second.m, second.d)
            ELSE NoneTs

\* The value of a data-pre-plain-text attribute: its shape after
\* clean_pre_plain and the timestamp text it holds.  Shapes: "[ts] sender:",
\* "[ts]" followed by anything, a bare "HH:MM", anything else; "empty" is
\* the empty string and "absent" a missing attribute
Header(shape, ts) == [shape |-> shape, ts |-> ts]

NoAttr == Header("absent", NoTs)

EmptyAttr == Header("empty", NoTs)

\* bool(attribute value)
attr_truthy(h) == h.shape \notin {"absent", "empty"}

\* utils.parse_pre_plain: the three regular expressions in turn
parse_pre_plain(pre_raw) ==
    IF ~ attr_truthy(pre_raw) THEN [raw |-> pre_raw, ts_str |-> NoTs]
    ELSE IF pre_raw.shape \in {"bracket_sender", "bracket", "time"}
         THEN [raw |-> pre_raw, ts_str |-> ts_strip(pre_raw.ts)]
         ELSE [raw |-> pre_raw, ts_str |-> NoTs]

(***************************************************************************)
(* Header text, character by character (utils.py).  The abstract Header    *)
(* above is the shape these operators find.  The alphabet: brackets, the   *)
(* colon, the blank, a digit, ">" and "pm", one character standing for any *)
(* of AM, PM, am, pm; it has no line break.                                *)
(***************************************************************************)
MaxHeaderLen == 5

HeaderChars == {"[", "]", ":", " ", "1", "pm", ">"}

HeaderTexts == UNION {[1..n -> HeaderChars] : n \in 0..MaxHeaderLen}

\* The string after position i (s[i:] with a 0-based i)
from(s, i) == SubSeq(s, i + 1, Len(s))

\* re.sub(r'^(?:&gt;|>)+\s*', '', s)
RECURSIVE drop_quote_marks(_)
drop_quote_marks(s) ==
    IF s # <<>> /\ Head(s) = ">"
    THEN IF Len(s) > 1 /\ s[2] = ">" THEN drop_quote_marks(Tail(s)) ELSE lstrip(Tail(s))
    ELSE s

\* utils.clean_pre_plain
clean_pre_plain(raw) == strip(drop_quote_marks(strip(raw)))

\* A match of a regular expression: whether it matched and group 'ts'
NoMatch == [matched |-> FALSE, ts |-> <<>>]

Match(ts) == [matched |-> TRUE, ts |-> ts]

\* Position of the first "]" of s, 0 when there is none
first_close(s) ==
    IF \E j \in 1..Len(s) : s[j] = "]"
    THEN CHOOSE j \in 1..Len(s) : s[j] = "]" /\ \A i \in 1..(j - 1) : s[i] # "]"
    ELSE 0

\* Position of the last "]" of s, 0 when there is none
last_close(s) ==
    IF \E j \in 1..Len(s) : s[j] = "]"
    THEN CHOOSE j \in 1..Len(s) : s[j] = "]" /\ \A i \in (j + 1)..Len(s) : s[i] # "]"
    ELSE 0

\* ^\s*\[(?P<ts>[^\]]+)\] : after leading blanks a "[", one or more
\* characters that are not "]", and "]"
match_bracket(s) ==
    LET t == lstrip(s)
        j == first_close(t)
    IN IF t # <<>> /\ Head(t) = "[" /\ j >= 3
       THEN [matched |-> TRUE, ts |-> SubSeq(t, 2, j - 1), rest |-> from(t, j)]
       ELSE [matched |-> FALSE, ts |-> <<>>, rest |-> <<>>]

\* \s*(?P<sender>[^:]+):?\s*$ : one or more characters that are no colon,
\* then at most one colon followed by blanks only
match_sender(r) ==
    /\ r # <<>>
    /\ \A p \in 1..Len(r) :
         r[p] = ":" => (p >= 2 /\ \A q \in (p + 1)..Len(r) : r[q] = " ")

\* re.match of shape (a): [timestamp] sender:
match_bracket_sender(s) ==
    IF match_bracket(s).matched /\ match_sender(match_bracket(s).rest)
    THEN Match(match_bracket(s).ts) ELSE NoMatch

\* \d{1,2}[:.]\d{2} at the start of s: its length, 0 when it is not there
time_prefix(s) ==
    IF Len(s) >= 5 /\ s[1] = "1" /\ s[2] = "1" /\ s[3] = ":" /\ s[4] = "1" /\ s[5] = "1"
    THEN 5
    ELSE IF Len(s) >= 4 /\ s[1] = "1" /\ s[2] = ":" /\ s[3] = "1" /\ s[4] = "1"
    THEN 4
    ELSE 0

\* re.match of shape (c): HH:MM and, when blanks and AM/PM follow, those
match_time(s) ==
    LET n == time_prefix(s)
        r == lstrip(from(s, n))
    IN IF n = 0 THEN NoMatch
       ELSE IF r # <<>> /\ Head(r) = "pm"
       THEN Match(SubSeq(s, 1, Len(s) - Len(r) + 1))
       ELSE Match(SubSeq(s, 1, n))

\* The ts_str of parse_pre_plain: some is FALSE for None
NoTsStr == [some |-> FALSE, s |-> <<>>]

TsStr(s) == [some |-> TRUE, s |-> s]

\* parse_pre_plain with the bracket read up to the last "]"
parse_pre_plain_chars_greedy(pre_raw) ==
    LET s == lstrip(clean_pre_plain(pre_raw))
        j == last_close(s)
    IN IF pre_raw = <<>> THEN NoTsStr
       ELSE IF s # <<>> /\ Head(s) = "[" /\ j >= 3 THEN TsStr(strip(SubSeq(s, 2, j - 1)))
       ELSE IF match_time(s).matched THEN TsStr(strip(match_time(s).ts))
       ELSE NoTsStr

\* utils.parse_pre_plain on the characters of the header: out['ts_str']
parse_pre_plain_chars(pre_raw) ==
    LET s == clean_pre_plain(pre_raw)
    IN IF pre_raw = <<>> THEN NoTsStr
       ELSE IF match_bracket_sender(s).matched THEN TsStr(strip(match_bracket_sender(s).ts))
       ELSE IF match_bracket(s).matched THEN TsStr(strip(match_bracket(s).ts))
       ELSE IF match_time(s).matched THEN TsStr(strip(match_time(s).ts))
       ELSE NoTsStr

InitHeader ==
    /\ prog = "master"
    /\ reach = <<>>
    /\ pc = "header"
    /\ srcIdx = 1
    /\ messages = <<>>
    /\ msgIdx = 1
    /\ jobs = <<>>
    /\ duplicates = EmptyBag
    /\ new_jobs_count = 0
    /\ total_messages_processed = 0
    /\ total_valid_jobs = 0
    /\ requests = 0
    /\ last = NoLast
    /\ summary = NoSummary
    /\ dedupRuns = 0
    /\ fetched = 0
    /\ fetchEnv = "none"
    /\ exc = "none"
    /\ ptext \in HeaderTexts
    /\ presult = NoTsStr
    /\ html = NoDocument
    /\ clock = <<>>
    /\ runs = <<>>
    /\ conn = <<>>
    /\ db_lock = 0

\* One call of parse_pre_plain on the header text ptext
ParseHeader ==
    /\ pc = "header"
    /\ presult' = parse_pre_plain_chars(ptext)
    /\ pc' = "header_parsed"
    /\ UNCHANGED <<prog, reach, srcIdx, messages, msgIdx, jobs, duplicates, new_jobs_count,
                   total_messages_processed, total_valid_jobs, requests, last,
                   summary, dedupRuns, fetched, fetchEnv, exc, ptext,
                   xvars, cvars>>

NextHeader == ParseHeader

SpecHeader == InitHeader /\ [][NextHeader]_vars

(***************************************************************************)
(* Extractor (extractors.py).  A node of the saved page carries its two    *)
(* header attributes, whether it has class copyable-text, its visible text *)
(* (echo: the text begins with the header, then body) and whether          *)
(* processing it raises.                                                   *)
(***************************************************************************)
MaxNodes == 2

Node(dash, under, copyable, echo, body, broken) ==
    [dash |-> dash, under |-> under, copyable |-> copyable, echo |-> echo,
     body |-> body, broken |-> broken]

\* tag.get('data-pre-plain-text') or tag.get('data-pre_plain_text')
header_of(tag) == IF attr_truthy(tag.dash) THEN tag.dash ELSE tag.under

\* tag.get_text(separator = ' ', strip = True): "h" stands for the header
get_text(tag) == (IF tag.echo THEN <<"h">> ELSE <<>>) \o tag.body

\* extract_from_tag with timestamp_out = ts_iso, the raw string let go
extract_from_tag_iso_only(tag, today) ==
    LET parsed == parse_pre_plain(header_of(tag))
        visible == get_text(tag)
        text == IF attr_truthy(parsed.raw) /\ tag.echo THEN strip(Tail(visible))
                ELSE visible
        ts_iso == try_parse_datetime(parsed.ts_str, today)
    IN [raised |-> tag.broken, text |-> text, timestamp |-> ts_iso]

\* HTMLMessageExtractor.extract_from_tag, on the day today
extract_from_tag(tag, today) ==
    LET parsed == parse_pre_plain(header_of(tag))
        visible == get_text(tag)
        text == IF attr_truthy(parsed.raw) /\ tag.echo THEN strip(Tail(visible))
                ELSE visible
        ts_iso == try_parse_datetime(parsed.ts_str, today)
        timestamp_out == IF ts_iso # NoneTs THEN ts_iso
                         ELSE IF parsed.ts_str = NoTs THEN NoneTs
                         ELSE RawTs(parsed.ts_str)
    IN [raised |-> tag.broken, text |-> text, timestamp |-> timestamp_out]

\* bool(msg['timestamp'])
timestamp_truthy(t) == t.ty = "iso" \/ (t.ty = "raw" /\ ts_truthy(t.raw))

\* The three probes of extract_from_html, in document order
find_all_dash(nodes) == SelectSeq(nodes, LAMBDA n : n.dash # NoAttr)

find_all_underscore(nodes) == SelectSeq(nodes, LAMBDA n : n.under # NoAttr)

select_copyable(nodes) == SelectSeq(nodes, LAMBDA n : n.copyable)

\* the three probes run together, every match taken
probe_all(nodes) ==
    SelectSeq(nodes, LAMBDA n : n.dash # NoAttr \/ n.under # NoAttr \/ n.copyable)

probe(nodes) ==
    IF find_all_dash(nodes) # <<>> THEN find_all_dash(nodes)
    ELSE IF find_all_underscore(nodes) # <<>> THEN find_all_underscore(nodes)
    ELSE select_copyable(nodes)

\* What the loop of extract_from_html does with one element
visit(elem, today) ==
    LET msg == extract_from_tag(elem, today)
    IN [node |-> elem, raised |-> msg.raised, text |-> msg.text,
        timestamp |-> msg.timestamp,
        kept |-> ~ msg.raised /\ msg.text # <<>> /\ timestamp_truthy(msg.timestamp)]

visits(elems, today) == [i \in 1..Len(elems) |-> visit(elems[i], today)]

\* the loop putting each message at the front of the list
RECURSIVE collect_newest_first(_)
collect_newest_first(vs) ==
    IF vs = <<>> THEN <<>>
    ELSE collect_newest_first(Tail(vs)) \o
         (IF Head(vs).kept
          THEN <<[text |-> Head(vs).text, timestamp |-> Head(vs).timestamp]>>
          ELSE <<>>)

\* The messages list the loop builds
RECURSIVE collect(_)
collect(vs) ==
    IF vs = <<>> THEN <<>>
    ELSE (IF Head(vs).kept
          THEN <<[text |-> Head(vs).text, timestamp |-> Head(vs).timestamp]>>
          ELSE <<>>) \o collect(Tail(vs))

\* extract_from_html with the open / BeautifulSoup block outside any try
extract_from_html_unguarded(doc, today) ==
    IF doc.kind # "ok"
    THEN [messages |-> <<>>, error |-> FALSE, raised |-> TRUE, visited |-> <<>>]
    ELSE [messages |-> collect(visits(probe(doc.nodes), today)), error |-> FALSE,
          raised |-> FALSE, visited |-> visits(probe(doc.nodes), today)]

\* HTMLMessageExtractor.extract_from_html on the day today: messages is the
\* list returned, error whether "Error reading HTML" was printed, raised
\* whether an exception left the function, visited the loop's elements
extract_from_html(doc, today) ==
    IF doc.kind # "ok"
    THEN [messages |-> <<>>, error |-> TRUE, raised |-> FALSE, visited |-> <<>>]
    ELSE [messages |-> collect(visits(probe(doc.nodes), today)), error |-> FALSE,
          raised |-> FALSE, visited |-> visits(probe(doc.nodes), today)]

\* Header timestamps of the saved pages
DateStamps ==
    {TsString("date", 2, 3, FALSE), TsString("date", 13, 2, FALSE),
     TsString("date", 2, 13, FALSE), TsString("date", 13, 14, FALSE),
     TsString("date", 2, 3, TRUE), TsString("date", 13, 14, TRUE)}

BareTime == TsString("time", 0, 0, FALSE)

Stamps ==
    DateStamps \cup {BareTime, TsString("words", 0, 0, FALSE), TsString("blank", 0, 0, FALSE)}

Headers ==
    {Header("bracket_sender", t) : t \in Stamps}
    \cup {Header("bracket", TsString("date", 2, 3, FALSE)), Header("bracket", BareTime),
          Header("time", BareTime), Header("other", NoTs)}

\* Nodes of the saved pages
Nodes ==
    {Node(h, NoAttr, TRUE, FALSE, <<"m">>, FALSE) : h \in Headers}
    \cup {Node(Header("bracket_sender", t), NoAttr, TRUE, FALSE, <<>>, FALSE) :
            t \in {TsString("date", 2, 3, FALSE), BareTime, TsString("words", 0, 0, FALSE)}}
    \cup {Node(Header("other", NoTs), NoAttr, TRUE, FALSE, <<>>, FALSE)}
    \cup {Node(Header("bracket_sender", TsString("date", 2, 3, FALSE)), NoAttr, TRUE, TRUE, b, FALSE) :
            b \in {<<>>, <<" ", "m">>}}
    \cup {Node(EmptyAttr, Header("bracket_sender", TsString("date", 2, 3, FALSE)), FALSE, FALSE, <<"m">>, FALSE),
          Node(NoAttr, Header("bracket_sender", TsString("date", 13, 2, FALSE)), TRUE, FALSE, <<"n">>, FALSE),
          Node(NoAttr, NoAttr, TRUE, FALSE, <<"m">>, FALSE),
          Node(NoAttr, NoAttr, FALSE, FALSE, <<"m">>, FALSE),
          Node(Header("bracket_sender", TsString("date", 2, 3, FALSE)), NoAttr, TRUE, FALSE, <<"m">>, TRUE)}

\* The saved pages: one that cannot be opened, one the HTML parser gives up
\* on, and every page of at most MaxNodes nodes
Documents ==
    {[kind |-> k, nodes |-> <<>>] : k \in {"unreadable", "parse_error"}}
    \cup {[kind |-> "ok", nodes |-> ns] : ns \in UNION {[1..n -> Nodes] : n \in 0..MaxNodes}}

\* The days on which extract_from_html is called
Days == {[m |-> 11, d |-> 5], [m |-> 11, d |-> 6]}

InitExtract ==
    /\ prog \in {"master"}
    /\ reach = <<>>
    /\ pc = "extract"
    /\ srcIdx = 1
    /\ messages = <<>>
    /\ msgIdx = 1
    /\ jobs = <<>>
    /\ duplicates = EmptyBag
    /\ new_jobs_count = 0
    /\ total_messages_processed = 0
    /\ total_valid_jobs = 0
    /\ requests = 0
    /\ last = NoLast
    /\ summary = NoSummary
    /\ dedupRuns = 0
    /\ fetched = 0
    /\ fetchEnv = "none"
    /\ exc = "none"
    /\ ptext = <<>>
    /\ presult = NoResult
    /\ html \in Documents
    /\ clock \in Days \X Days
    /\ runs = <<>>
    /\ conn = <<>>
    /\ db_lock = 0

\* One call of extract_from_html(html_path); the page is read twice, on the
\* days clock[1] and clock[2]
Extract ==
    /\ pc = "extract"
    /\ runs' = Append(runs, extract_from_html(html, clock[Len(runs) + 1]))
    /\ pc' = IF Len(runs) = 1 THEN "extracted" ELSE "extract"
    /\ UNCHANGED <<prog, reach, srcIdx, messages, msgIdx, jobs, duplicates, new_jobs_count,
                   total_messages_processed, total_valid_jobs, requests, last,
                   summary, dedupRuns, fetched, fetchEnv, exc, ptext, presult,
                   html, clock, cvars>>

NextExtract == Extract

SpecExtract == InitExtract /\ [][NextExtract]_vars

(***************************************************************************)
(* Concurrent callers of insert_job (database.py).  Every call opens its   *)
(* own connection; SQLite lets one connection at a time hold the write     *)
(* lock, from the INSERT to the commit or the rollback.                    *)
(***************************************************************************)
NumCallers == 2

Callers == 1..NumCallers

\* The jobs the callers try to insert: two share a post_id, one has no role
StoreJobs ==
    {JobPost(md5(<<"k", "1">>), <<"B">>, <<"A">>, <<"L">>, JStr(<<"x">>), 1, <<"1">>),
     JobPost(md5(<<"k", "1">>), <<"B">>, <<"A">>, <<"L">>, JStr(<<"y">>), 1, <<"2">>),
     JobPost(md5(<<"k", "2">>), <<"C">>, <<"A">>, <<"L">>, JStr(<<"x">>), 1, <<"1">>),
     JobPost(md5(<<"k", "3">>), NULL, <<"A">>, <<"L">>, JStr(<<"x">>), 1, <<"1">>)}

\* The table before the calls: empty, or holding post_id k1 already
StoreTables ==
    {<<>>,
     <<Row(1, JobPost(md5(<<"k", "1">>), <<"B">>, <<"A">>, <<"L">>, JStr(<<"z">>), 1, <<"0">>))>>}

Call(job) == [pc |-> "call", job |-> job, ret |-> "none"]

\* a store that lets a connection write whoever holds the lock
may_write_unlocked(lock, c) == TRUE

\* SQLite grants the write lock to connection c when no other holds it
may_write(lock, c) == lock \in {0, c}

InitStore ==
    /\ prog = "master"
    /\ reach = <<>>
    /\ pc = "store"
    /\ srcIdx = 1
    /\ messages = <<>>
    /\ msgIdx = 1
    /\ jobs \in StoreTables
    /\ duplicates = EmptyBag
    /\ new_jobs_count = 0
    /\ total_messages_processed = 0
    /\ total_valid_jobs = 0
    /\ requests = 0
    /\ last = NoLast
    /\ summary = NoSummary
    /\ dedupRuns = 0
    /\ fetched = 0
    /\ fetchEnv = "none"
    /\ exc = "none"
    /\ ptext = <<>>
    /\ presult = NoResult
    /\ html = NoDocument
    /\ clock = <<>>
    /\ runs = <<>>
    /\ conn \in [Callers -> {Call(j) : j \in StoreJobs}]
    /\ db_lock = 0

\* What a step of the store leaves alone
StoreFrame ==
    UNCHANGED <<prog, reach, pc, srcIdx, messages, msgIdx, duplicates, new_jobs_count,
                total_messages_processed, total_valid_jobs, requests, last,
                summary, dedupRuns, fetched, fetchEnv, exc, ptext, presult, xvars>>

\* insert_job: conn = sqlite3.connect(self.db_path)
Connect(c) ==
    /\ conn[c].pc = "call"
    /\ conn' = [conn EXCEPT ![c].pc = "connected"]
    /\ UNCHANGED <<jobs, db_lock>>
    /\ StoreFrame

\* insert_job: cursor.execute(INSERT ...): the connection takes the write
\* lock and the constraints are checked against the table
ExecuteInsert(c) ==
    /\ conn[c].pc = "connected"
    /\ may_write(db_lock, c)
    /\ db_lock' = c
    /\ conn' = [conn EXCEPT ![c].pc =
                  IF notnull_violation(prog, conn[c].job) \/ unique_violation(jobs, conn[c].job)
                  THEN "integrity_error" ELSE "executed"]
    /\ UNCHANGED jobs
    /\ StoreFrame

\* insert_job: the INSERT finds the database locked by another connection
\* until the busy timeout; sqlite3.OperationalError leaves insert_job
DatabaseLocked(c) ==
    /\ conn[c].pc = "connected"
    /\ ~ may_write(db_lock, c)
    /\ conn' = [conn EXCEPT ![c].pc = "returned", ![c].ret = "raise"]
    /\ UNCHANGED <<jobs, db_lock>>
    /\ StoreFrame

\* insert_job: conn.commit()
Commit(c) ==
    /\ conn[c].pc = "executed"
    /\ jobs' = Append(jobs, Row(Len(jobs) + 1, conn[c].job))
    /\ db_lock' = 0
    /\ conn' = [conn EXCEPT ![c].pc = "committed"]
    /\ StoreFrame

\* insert_job: conn.close(); return True
ReturnTrue(c) ==
    /\ conn[c].pc = "committed"
    /\ conn' = [conn EXCEPT ![c].pc = "returned", ![c].ret = "True"]
    /\ UNCHANGED <<jobs, db_lock>>
    /\ StoreFrame

\* insert_job: except sqlite3.IntegrityError: return False; the connection
\* goes with the frame and its transaction is rolled back
ReturnFalse(c) ==
    /\ conn[c].pc = "integrity_error"
    /\ conn' = [conn EXCEPT ![c].pc = "returned", ![c].ret = "False"]
    /\ db_lock' = 0
    /\ UNCHANGED jobs
    /\ StoreFrame

NextStore ==
    \E c \in Callers :
        \/ Connect(c)
        \/ ExecuteInsert(c)
        \/ DatabaseLocked(c)
        \/ Commit(c)
        \/ ReturnTrue(c)
        \/ ReturnFalse(c)

SpecStore == InitStore /\ [][NextStore]_vars

(***************************************************************************)
(* The deduplication pass on its own (main.py): deduplicate_jobs called    *)
(* again and again on a jobs table that does not change, as by later runs  *)
(* of the program over the same database with nothing new to insert.       *)
(***************************************************************************)
MaxRows == 3

MaxPasses == 3

\* Stored jobs: two share (company_name, role, location) under different
\* post_ids, one differs in location, one in the case of company_name
DedupJobs ==
    {JobPost(md5(<<" ", "A", "B", "L">>), <<"B">>, <<"A">>, <<"L">>, JStr(<<"x">>), 1, <<"1">>),
     JobPost(md5(<<"A", "B", "L">>), <<"B">>, <<"A">>, <<"L">>, JStr(<<"y">>), 1, <<"2">>),
     JobPost(md5(<<"A", "B", "M">>), <<"B">>, <<"A">>, <<"M">>, JStr(<<"x">>), 1, <<"1">>),
     JobPost(md5(<<"a", "B", "L">>), <<"B">>, <<"a">>, <<"L">>, JStr(<<"x">>), 1, <<"1">>)}

\* The jobs tables of at most MaxRows rows, ids in insertion order, no
\* post_id twice
DedupTables ==
    UNION {{[i \in 1..n |-> Row(i, f[i])] :
                f \in {g \in [1..n -> DedupJobs] :
                         \A i, j \in 1..n : g[i].post_id = g[j].post_id => i = j}} :
           n \in 0..MaxRows}

InitDedup ==
    /\ prog = "main"
    /\ reach = <<>>
    /\ pc = "passes"
    /\ srcIdx = 1
    /\ messages = <<>>
    /\ msgIdx = 1
    /\ jobs \in DedupTables
    /\ duplicates = EmptyBag
    /\ new_jobs_count = 0
    /\ total_messages_processed = 0
    /\ total_valid_jobs = 0
    /\ requests = 0
    /\ last = NoLast
    /\ summary = NoSummary
    /\ dedupRuns = 0
    /\ fetched = 0
    /\ fetchEnv = "none"
    /\ exc = "none"
    /\ ptext = <<>>
    /\ presult = NoResult
    /\ html = NoDocument
    /\ clock = <<>>
    /\ runs = <<>>
    /\ conn = <<>>
    /\ db_lock = 0

\* One call of self.db.deduplicate_jobs()
DedupPass ==
    /\ pc = "passes"
    /\ dedupRuns < MaxPasses
    /\ duplicates' = duplicates (+) deduplicate_jobs(jobs, DefaultThreshold)
    /\ jobs' = jobs_after_dedup(jobs)
    /\ dedupRuns' = dedupRuns + 1
    /\ UNCHANGED <<prog, reach, pc, srcIdx, messages, msgIdx, new_jobs_count,
                   total_messages_processed, total_valid_jobs, requests, last,
                   summary, fetched, fetchEnv, exc, ptext, presult,
                   xvars, cvars>>

NextDedup == DedupPass

SpecDedup == InitDedup /\ [][NextDedup]_vars

(***************************************************************************)
(* Properties                                                              *)
(***************************************************************************)
Lower(c) == CASE c = "A" -> "a" [] c = "B" -> "b" [] c = "C" -> "c"
              [] c = "L" -> "l" [] OTHER -> c

casefold(s) == [i \in 1..Len(s) |-> Lower(s[i])]

\* (company_name, role, location), trimmed and case-folded
NormTuple(job) ==
    <<casefold(strip(job.company_name)), casefold(strip(job.role)),
      casefold(strip(job.location))>>

\* The object the provider sent with the last message (the empty dict when
\* it sent none)
Candidate(o) ==
    IF \E d \in Objects : o.text = Wrapped(d)
    THEN CHOOSE d \in Objects : o.text = Wrapped(d)
    ELSE EmptyDict

\* A field that is present, a string, and non-empty after trimming
Present(v) == v.ty = "str" /\ strip(v.s) # <<>>

\* The step processed a message
Processed == total_messages_processed' = total_messages_processed + 1

\* C1: the store holds at most one row per post_id; an insert whose post_id
\* is already stored is reported as a duplicate and changes no row, a fresh one
\* is reported as inserted and appends exactly its row; no step changes or
\* removes a stored row.
C1_InsertIfAbsent ==
    [][ /\ \A i \in 1..Len(jobs) : i <= Len(jobs') /\ jobs'[i] = jobs[i]
        /\ \A i, j \in 1..Len(jobs') :
             jobs'[i].job.post_id = jobs'[j].job.post_id => i = j
        /\ (Processed /\ last'.result \in {"INSERTED", "DUPLICATE"}) =>
             IF \E i \in 1..Len(jobs) : jobs[i].job.post_id = last'.job.post_id
             THEN last'.result = "DUPLICATE" /\ jobs' = jobs
             ELSE /\ last'.result = "INSERTED"
                  /\ jobs' = Append(jobs, Row(Len(jobs) + 1, last'.job)) ]_vars

\* C1 witness: an insert met a stored post_id, with another description, and
\* was reported as a duplicate
C1_Witness ==
    /\ last.result = "DUPLICATE"
    /\ \E i \in 1..Len(jobs) :
         /\ jobs[i].job.post_id = last.job.post_id
         /\ jobs[i].job.description # last.job.description

\* C2: two stored records whose (company_name, role, location) are equal
\* after trimming and case-folding carry the same post_id, whatever their
\* timestamps.
C2_PostIdByNormalizedTuple ==
    \A i, j \in 1..Len(jobs) :
        NormTuple(jobs[i].job) = NormTuple(jobs[j].job)
            => jobs[i].job.post_id = jobs[j].job.post_id

\* C3: in master.py a message that structures to the (company_name, role,
\* location) of a stored record, with a different timestamp, is a DUPLICATE:
\* it is never INSERTED as a second row.
C3_RepostIsDuplicate ==
    prog = "master" =>
        ~ (/\ last.result = "INSERTED"
           /\ Present(Candidate(last.o)["role"])
           /\ Present(Candidate(last.o)["company_name"])
           /\ \E i \in 1..(Len(jobs) - 1) :
                /\ jobs[i].job.company_name = last.job.company_name
                /\ jobs[i].job.role = last.job.role
                /\ jobs[i].job.location = last.job.location
                /\ jobs[i].job.date_posted # last.job.date_posted)

\* C4: a row is written only for a candidate whose role and company_name are
\* both present and non-empty after trimming.
C4_RequiredFields ==
    last.result = "INSERTED" =>
        /\ Present(Candidate(last.o)["role"])
        /\ Present(Candidate(last.o)["company_name"])

\* C5: in master.py a provider object whose valid member is not the boolean
\* true (false, absent, or any other value) is REJECTED and never reaches
\* the store.
C5_ValidGate ==
    (prog = "master" /\ last.o.kind = "ok" /\ Candidate(last.o)["valid"] # JTrue)
        => last.result \notin {"INSERTED", "DUPLICATE"}

\* Provider outcomes that must come to "no candidate": timeout, connection
\* failure, bad status, unusable body, no or malformed JSON span, and (for
\* parser.py) valid == false
FailureOutcome(p, o) ==
    \/ o.kind \in {"timeout", "connection_error", "bad_status", "bad_body"}
    \/ (o.kind = "ok" /\ o.text \in NoObjectTexts)
    \/ (p = "master" /\ o.kind = "ok" /\ Candidate(o)["valid"] = JFalse
            /\ \E d \in Objects : o.text = Wrapped(d))

\* C6: a message whose provider request fails in any of those ways is
\* rejected with no exception escaping: the store is unchanged and the run
\* goes on to the next message, the next source or the tail of the run.
C6_NoCandidateOnFailure ==
    [][ (Processed /\ FailureOutcome(prog, last'.o)) =>
            /\ last'.result = "REJECTED"
            /\ jobs' = jobs
            /\ pc' \in {"msg", "fetch", "dedup", "summary"} ]_vars

\* C6 witness: a request timed out, the message was rejected, and the next
\* message of the same source is up
C6_Witness ==
    /\ last.o.kind = "timeout"
    /\ last.result = "REJECTED"
    /\ pc = "msg"
    /\ msgIdx = 2

\* Position of the first opening brace, 0 when there is none
FirstOpen(text) ==
    IF \E i \in 1..Len(text) : text[i].t = "{"
    THEN CHOOSE i \in 1..Len(text) :
            text[i].t = "{" /\ \A j \in 1..Len(text) : text[j].t = "{" => i <= j
    ELSE 0

\* Position of the last closing brace, 0 when there is none
LastClose(text) ==
    IF \E i \in 1..Len(text) : text[i].t = "}"
    THEN CHOOSE i \in 1..Len(text) :
            text[i].t = "}" /\ \A j \in 1..Len(text) : text[j].t = "}" => j <= i
    ELSE 0

\* text is pre, one JSON object, post, the object at positions a+1..b
IsObjectAt(text, a, b) == a < b /\ json_ok(SubSeq(text, a + 1, b))

\* The engine's answer for an object it accepts: parser.py answers "no
\* candidate" for an object whose valid member is falsy
AnswerFor(p, d) ==
    IF p = "master" /\ ~truthy(getd(d, "valid", JFalse)) THEN RetNone ELSE RetDict(d)

\* C7 (as amended): for text made of prose without an opening brace, one JSON
\* object, and prose without a closing brace, the engine parses exactly the
\* object (first opening brace to last closing brace) and returns it (parser.py:
\* when its valid member is truthy); whenever it returns an object, that is
\* the object of the first-to-last-brace span; with no opening brace, or no
\* closing brace after the first opening brace, the answer is no candidate.
C7_SpanExtraction ==
    pc = "parsed" =>
        /\ \A a \in 0..Len(ptext), b \in 0..Len(ptext) :
             ( /\ IsObjectAt(ptext, a, b)
               /\ \A i \in 1..a : ptext[i].t # "{"
               /\ \A i \in (b + 1)..Len(ptext) : ptext[i].t # "}" )
             => presult = AnswerFor(prog, json_loads(SubSeq(ptext, a + 1, b)))
        /\ presult.ret = "dict" =>
             /\ IsObjectAt(ptext, FirstOpen(ptext) - 1, LastClose(ptext))
             /\ presult.d = json_loads(SubSeq(ptext, FirstOpen(ptext), LastClose(ptext)))
        /\ (FirstOpen(ptext) = 0 \/ LastClose(ptext) < FirstOpen(ptext))
             => presult = RetNone

\* C7 witness: prose, an object with valid true, prose; the object came back
C7_Witness ==
    /\ pc = "parsed"
    /\ prog = "master"
    /\ ptext = <<Prose, LBrace, Member("valid", JTrue), Member("role", JStr(<<"B">>)), RBrace>>
         \/ ptext = <<Prose, LBrace, Member("valid", JTrue), RBrace, Prose>>
    /\ presult.ret = "dict"
    /\ presult.d["valid"] = JTrue

\* C7 (as claimed): for text made of arbitrary prose, one JSON object, and
\* arbitrary prose, the engine returns the enclosed object.
C7_ArbitraryProse ==
    pc = "parsed" =>
        \A a \in 0..Len(ptext), b \in 0..Len(ptext) :
            ( /\ IsObjectAt(ptext, a, b)
              /\ \A i \in (1..a) \cup ((b + 1)..Len(ptext)) : ptext[i].t # "member" )
            => presult = AnswerFor(prog, json_loads(SubSeq(ptext, a + 1, b)))

\* C8: the number of provider requests equals the number of messages
\* processed, which never exceeds the number of messages fetched: one request
\* per message, none repeated.
C8_OneRequestPerMessage ==
    /\ requests = total_messages_processed
    /\ total_messages_processed <= fetched

\* C8 witness: two messages processed, the last request timed out
C8_Witness ==
    /\ total_messages_processed = 2
    /\ requests = 2
    /\ last.o.kind = "timeout"

\* C9: a source whose fetch fails, fetch_posts raising included, does not
\* stop the run while sources remain to be processed.
C9_FailureIsolation ==
    ~ (/\ pc = "aborted"
       /\ exc = "fetch_posts"
       /\ srcIdx < NumSources)

\* C10: a run of aggregate that has ended has emitted the run summary, also
\* when sources failed (a run the store itself aborted is left aside).
C10_SummaryEmitted ==
    (pc = "done" \/ (pc = "aborted" /\ exc # "insert_job")) => summary.emitted

\* C11: the deduplication pass runs exactly once in every run, after the last
\* message of the last source has been processed and before the run summary
\* is emitted.
C11_DedupOnce ==
    /\ dedupRuns <= 1
    /\ dedupRuns = 1 => (messages = <<>> /\ srcIdx = NumSources)
    /\ pc = "dedup" => ~ summary.emitted
    /\ summary.emitted => dedupRuns = 1

\* The figures the run summary reports, by name
SummaryCounters == DOMAIN summary \ {"emitted"}

\* C12: the emitted run summary reports the counts of messages processed,
\* accepted as candidates, inserted, found duplicate and rejected.
C12_SummaryCounters ==
    summary.emitted =>
        /\ {"processed", "valid", "new", "duplicate", "rejected"} \subseteq SummaryCounters
        /\ summary.processed = total_messages_processed
        /\ summary.new = new_jobs_count

\* The terminal states of a message
TerminalStates == {"REJECTED", "INSERTED", "DUPLICATE"}

\* What must route a message to REJECTED: a provider error, an object that
\* is not valid (parser.py), a required field that is missing or blank
MustReject(p, o) ==
    \/ FailureOutcome(p, o)
    \/ (p = "master" /\ o.kind = "ok" /\ Candidate(o)["valid"] # JTrue)
    \/ ~ Present(Candidate(o)["role"])
    \/ ~ Present(Candidate(o)["company_name"])

\* C13: a message that has been processed is in exactly one terminal state
\* (a run the store aborted is left aside), and a provider error, an invalid
\* object or a missing required field has routed it to REJECTED.
C13_MessageStateMachine ==
    last.result \notin {"none", "FATAL"} =>
        /\ last.result \in TerminalStates
        /\ MustReject(prog, last.o) => last.result = "REJECTED"

\* The unordered pairs of post_ids the duplicates table links
LinkedPairs(links) ==
    {{l.original_post_id, l.duplicate_post_id} : l \in BagToSet(links)}

\* The unordered pairs of post_ids of distinct stored rows whose trimmed,
\* case-folded (company_name, role, location) agree
NormalizedGroupPairs(js) ==
    {{js[i].job.post_id, js[j].job.post_id} :
        <<i, j>> \in {pr \in (1..Len(js)) \X (1..Len(js)) :
                        /\ pr[1] < pr[2]
                        /\ NormTuple(js[pr[1]].job) = NormTuple(js[pr[2]].job)}}

\* C14: after the deduplication pass of main.py the linked pairs are exactly
\* the pairs of distinct stored records with identical normalized (trimmed,
\* case-insensitive) (company_name, role, location).
C14_DedupLinksNormalizedPairs ==
    (prog = "main" /\ dedupRuns = 1) =>
        LinkedPairs(duplicates) = NormalizedGroupPairs(jobs)

\* The links of a bag that join post_ids a and b, in either direction
LinksBetween(links, a, b) ==
    LET S == {l \in BagToSet(links) : {l.original_post_id, l.duplicate_post_id} = {a, b}}
    IN BagCardinality([l \in S |-> links[l]])

\* Rows i and j share (company_name, role, location), differ in description
\* and have distinct post_ids
SameTupleOtherText(js, i, j) ==
    /\ js[i].job.company_name = js[j].job.company_name
    /\ js[i].job.role = js[j].job.role
    /\ js[i].job.location = js[j].job.location
    /\ js[i].job.description # js[j].job.description
    /\ js[i].job.post_id # js[j].job.post_id

\* C15: one deduplication pass of main.py adds exactly one link between two
\* stored records that share (company_name, role, location), differ in
\* description and have distinct post_ids: not one per direction, and no
\* link from a record to itself.
C15_OneLinkPerPair ==
    [][ dedupRuns' = dedupRuns + 1 =>
          LET added == duplicates' (-) duplicates
          IN /\ \A i, j \in 1..Len(jobs) :
                  (i < j /\ SameTupleOtherText(jobs, i, j)) =>
                      LinksBetween(added, jobs[i].job.post_id, jobs[j].job.post_id) = 1
             /\ \A l \in BagToSet(added) : l.original_post_id # l.duplicate_post_id ]_vars

\* C15 witness: the pass has run over two such records and the table holds
\* one link
C15_Witness ==
    /\ prog = "main"
    /\ dedupRuns = 1
    /\ \E i, j \in 1..Len(jobs) : i < j /\ SameTupleOtherText(jobs, i, j)
    /\ BagCardinality(duplicates) = 1

\* C16: two calls of extract_from_html on the same document, on any two
\* days, return the same ordered sequence of messages, text and timestamp
\* alike.
C16_ExtractionIdempotent ==
    pc = "extracted" => runs[1].messages = runs[2].messages

Unparseable(ts) ==
    \/ ts.kind = "words"
    \/ (ts.kind = "date" /\ ts.a > 12 /\ ts.b > 12)

\* The timestamp string of a node's header, when the header has one of the
\* three shapes
HeaderTs(n) ==
    IF header_of(n).shape \in {"bracket_sender", "bracket", "time"}
    THEN header_of(n).ts ELSE NoTs

\* C18: every emitted message has non-empty text; a node with text whose
\* header timestamp cannot be parsed is emitted with the raw timestamp
\* string; a node with neither text nor timestamp is discarded.
C18_TextAndRawTimestamp ==
    \A k \in 1..Len(runs) :
        /\ \A i \in 1..Len(runs[k].messages) : runs[k].messages[i].text # <<>>
        /\ \A i \in 1..Len(runs[k].visited) :
             LET v == runs[k].visited[i]
             IN /\ (~ v.raised /\ v.text # <<>> /\ Unparseable(HeaderTs(v.node))) =>
                      /\ v.kept
                      /\ v.timestamp = RawTs(HeaderTs(v.node))
                      /\ \E j \in 1..Len(runs[k].messages) :
                           runs[k].messages[j] = [text |-> v.text, timestamp |-> RawTs(HeaderTs(v.node))]
                /\ (v.text = <<>> /\ HeaderTs(v.node).kind \in {"none", "blank"}) => ~ v.kept

\* C18 witness: a message was emitted with the words of its header as
\* timestamp
C18_Witness ==
    /\ pc = "extracted"
    /\ \E j \in 1..Len(runs[1].messages) :
         /\ runs[1].messages[j].timestamp = RawTs(TsString("words", 0, 0, FALSE))
         /\ runs[1].messages[j].text = <<"m">>

\* C19: a header date a/b whose month-first reading exists (a is a month) is
\* emitted as ISO-8601 with month a and day b; the day-first reading (month b,
\* day a) is emitted only when a is no month; bidi marks do not change the
\* result; a string neither reading accepts is kept as the raw string.
C19_MonthFirstThenDayFirst ==
    \A k \in 1..Len(runs) :
        \A i \in 1..Len(runs[k].visited) :
            LET v == runs[k].visited[i]
                ts == HeaderTs(v.node)
            IN /\ (ts.kind = "date" /\ ts.a <= 12) => v.timestamp = IsoTs(ts.a, ts.b)
               /\ (ts.kind = "date" /\ ts.a > 12 /\ ts.b <= 12) => v.timestamp = IsoTs(ts.b, ts.a)
               /\ v.timestamp.ty = "iso" =>
                    v.timestamp = try_parse_datetime(remove_marks(ts), clock[k])
               /\ Unparseable(ts) => v.timestamp = RawTs(ts)

\* C19 witness: in one page a marked 2/3 was emitted as 3 February and 13/2
\* as 13 February
C19_Witness ==
    /\ pc = "extracted"
    /\ \E i \in 1..Len(runs[1].visited) :
         /\ HeaderTs(runs[1].visited[i].node) = TsString("date", 2, 3, TRUE)
         /\ runs[1].visited[i].timestamp = IsoTs(2, 3)
    /\ \E i \in 1..Len(runs[1].visited) :
         /\ HeaderTs(runs[1].visited[i].node) = TsString("date", 13, 2, FALSE)
         /\ runs[1].visited[i].timestamp = IsoTs(2, 13)

\* Number of stored rows with post_id p
RowsWith(js, p) == Cardinality({i \in 1..Len(js) : js[i].job.post_id = p})

\* C20: of two concurrent insert_job calls with the same post_id (and the
\* NOT NULL fields filled) at most one
\* returns True, the row of a call that returned True is stored, no post_id
\* is ever stored twice, and once both calls have returned (not both turned
\* away by a locked database) exactly one row with that post_id exists.
C20_AtomicInsertIfAbsent ==
    /\ \A i, j \in 1..Len(jobs) : jobs[i].job.post_id = jobs[j].job.post_id => i = j
    /\ \A c \in DOMAIN conn :
         conn[c].ret = "True" => \E i \in 1..Len(jobs) : jobs[i].job = conn[c].job
    /\ \A c, d \in DOMAIN conn :
         ( /\ c # d
           /\ conn[c].job.post_id = conn[d].job.post_id
           /\ ~ notnull_violation(prog, conn[c].job)
           /\ ~ notnull_violation(prog, conn[d].job) ) =>
             /\ ~ (conn[c].ret = "True" /\ conn[d].ret = "True")
             /\ ( /\ conn[c].pc = "returned"
                  /\ conn[d].pc = "returned"
                  /\ conn[c].ret \in {"True", "False"} )
                => RowsWith(jobs, conn[c].job.post_id) = 1

\* C20 witness: two calls with the same post_id ran against an empty table
\* with their steps interleaved; one returned True, the other False, and
\* one row is stored
C20_Witness ==
    /\ pc = "store"
    /\ conn[1].job.post_id = conn[2].job.post_id
    /\ conn[1].job # conn[2].job
    /\ conn[1].ret = "False"
    /\ conn[2].ret = "True"
    /\ RowsWith(jobs, conn[1].job.post_id) = 1
    /\ jobs[1].job = conn[2].job

\* C21: a run is aborted only by the store: an error of insert_job that is
\* no constraint violation; a post_id conflict is reported as a duplicate
\* and no fetch, extraction, provider or validation failure ends the run.
C21_OnlyStorageFatal ==
    /\ pc = "aborted" => (exc = "insert_job" /\ last.result = "FATAL")
    /\ last.result \in {"DUPLICATE", "REJECTED"} => exc # "insert_job"

\* C22: the provider is asked whether it is reachable exactly once, before
\* any source is fetched and any structuring request is sent, never again
\* afterwards; when the answer is a connection error or a status other than
\* 200 nothing is fetched and nothing is processed.
C22_ReachabilityOnce ==
    /\ Len(reach) <= 1
    /\ pc # "check" => Len(reach) = 1
    /\ (fetchEnv # "none" \/ fetched > 0 \/ requests > 0 \/ total_messages_processed > 0)
         => reach = <<"200">>
    /\ (reach # <<>> /\ reach[1] # "200") =>
         (pc = "exit" /\ fetchEnv = "none" /\ jobs = <<>> /\ ~ summary.emitted)

\* C22 witness: one check, then two sources fetched and two structuring
\* requests sent
C22_Witness ==
    /\ reach = <<"200">>
    /\ requests = 2
    /\ srcIdx = 2
    /\ pc = "done"

\* The probe that supplies the nodes of a page: the first of data-pre-plain-text,
\* data-pre_plain_text and class copyable-text that some node matches
WinningProbe(nodes) ==
    IF \E i \in 1..Len(nodes) : nodes[i].dash # NoAttr THEN "data-pre-plain-text"
    ELSE IF \E i \in 1..Len(nodes) : nodes[i].under # NoAttr THEN "data-pre_plain_text"
    ELSE "copyable-text"

MatchesProbe(n, probe_name) ==
    CASE probe_name = "data-pre-plain-text" -> n.dash # NoAttr
      [] probe_name = "data-pre_plain_text" -> n.under # NoAttr
      [] OTHER -> n.copyable

\* C23: the nodes extract_from_html works on are all the matches of the
\* first probe that matches anything, and nothing else: no node that only a
\* later probe matches is taken once an earlier probe has matched.
C23_FirstProbeWins ==
    \A k \in 1..Len(runs) :
        html.kind = "ok" =>
            /\ \A i \in 1..Len(runs[k].visited) :
                 MatchesProbe(runs[k].visited[i].node, WinningProbe(html.nodes))
            /\ Len(runs[k].visited) =
                 Cardinality({i \in 1..Len(html.nodes) :
                                MatchesProbe(html.nodes[i], WinningProbe(html.nodes))})

\* C23 witness: a page whose first node carries only data-pre_plain_text and
\* whose second carries data-pre-plain-text; only the second was taken
C23_Witness ==
    /\ pc = "extracted"
    /\ Len(html.nodes) = 2
    /\ html.nodes[1].dash = NoAttr
    /\ html.nodes[1].under # NoAttr
    /\ html.nodes[2].dash # NoAttr
    /\ Len(runs[1].visited) = 1
    /\ runs[1].visited[1].node = html.nodes[2]

\* The strictly increasing maps from 1..n into 1..m
Increasing(n, m) ==
    {f \in [1..n -> 1..m] : \A i, j \in 1..n : i < j => f[i] < f[j]}

\* C25: the emitted sequence is, in document order, one record for every
\* node that the winning probe matched and the loop retained: the visited
\* elements are the matched nodes in the order of the document, and the
\* messages are the retained ones among them in that same order.
C25_DocumentOrder ==
    \A k \in 1..Len(runs) :
        html.kind = "ok" =>
            LET vs == runs[k].visited
                ms == runs[k].messages
            IN /\ \E g \in Increasing(Len(vs), Len(html.nodes)) :
                    /\ \A i \in 1..Len(vs) : vs[i].node = html.nodes[g[i]]
                    /\ \A n \in 1..Len(html.nodes) :
                         MatchesProbe(html.nodes[n], WinningProbe(html.nodes))
                            => \E i \in 1..Len(vs) : g[i] = n
               /\ \E f \in Increasing(Len(ms), Len(vs)) :
                    /\ \A j \in 1..Len(ms) :
                         /\ vs[f[j]].kept
                         /\ ms[j] = [text |-> vs[f[j]].text, timestamp |-> vs[f[j]].timestamp]
                    /\ \A i \in 1..Len(vs) : vs[i].kept => \E j \in 1..Len(ms) : f[j] = i

\* C25 witness: a page of two retained nodes with different messages, between
\* them a node that was dropped or not, came out as two messages, the first
\* node's first
C25_Witness ==
    /\ pc = "extracted"
    /\ Len(runs[1].messages) = 2
    /\ runs[1].messages[1] # runs[1].messages[2]
    /\ runs[1].visited[1].kept
    /\ runs[1].messages[1].timestamp = runs[1].visited[1].timestamp
    /\ runs[1].messages[2].timestamp = runs[1].visited[Len(runs[1].visited)].timestamp
    /\ runs[1].messages[1].timestamp # runs[1].messages[2].timestamp

\* The two spellings of HH:MM over the header alphabet
TimeTokens == {<<"1", ":", "1", "1">>, <<"1", "1", ":", "1", "1">>}

\* t is a prefix of s
IsPrefix(t, s) == Len(t) <= Len(s) /\ SubSeq(s, 1, Len(t)) = t

\* t is HH:MM, blanks, AM/PM
IsTimeWithMeridiem(t) ==
    /\ Len(t) >= 5
    /\ t[Len(t)] = "pm"
    /\ \E n \in {4, 5} :
         /\ n < Len(t)
         /\ SubSeq(t, 1, n) \in TimeTokens
         /\ \A i \in (n + 1)..(Len(t) - 1) : t[i] = " "

\* C24: with s the cleaned header, parse_pre_plain answers: for s beginning
\* with a bracketed group, the trimmed content of the first bracket pair,
\* whether or not a sender follows; for s beginning with HH:MM, that time
\* with its AM/PM when one follows; for any other header, and for the empty
\* one, no timestamp.
C24_HeaderShapes ==
    pc = "header_parsed" =>
        LET s == clean_pre_plain(ptext)
            bracketed == \E j \in 3..Len(s) :
                            s[1] = "[" /\ s[j] = "]" /\ \A i \in 2..(j - 1) : s[i] # "]"
            timed == \E t \in TimeTokens : IsPrefix(t, s)
        IN /\ \A j \in 3..Len(s) :
                (s[1] = "[" /\ s[j] = "]" /\ \A i \in 2..(j - 1) : s[i] # "]")
                    => presult = TsStr(strip(SubSeq(s, 2, j - 1)))
           /\ timed =>
                /\ presult.some
                /\ IsPrefix(presult.s, s)
                /\ presult.s \in TimeTokens \/ IsTimeWithMeridiem(presult.s)
                /\ \A n \in 1..Len(s) :
                     IsTimeWithMeridiem(SubSeq(s, 1, n)) => presult.s = SubSeq(s, 1, n)
           /\ (~ bracketed /\ ~ timed) => presult = NoTsStr

\* C24 witness: "[ 1]]" gave "1", the trimmed content of the first bracket
\* pair
C24_Witness ==
    /\ pc = "header_parsed"
    /\ ptext = <<"[", " ", "1", "]", "]">>
    /\ presult = TsStr(<<"1">>)

\* C26: a step that processes a message, whatever insert_job answers, leaves
\* the duplicates table as it is; the deduplication pass leaves the jobs
\* table as it is; the duplicates table changes in no other step than the
\* deduplication pass.
C26_FrameOfInsertAndDedup ==
    [][ /\ Processed => duplicates' = duplicates
        /\ dedupRuns' # dedupRuns => jobs' = jobs
        /\ duplicates' # duplicates => (pc = "dedup" /\ dedupRuns' = dedupRuns + 1) ]_vars

\* C26 witness: two inserts, then a pass that linked them; both rows are
\* still stored
C26_Witness ==
    /\ pc = "done"
    /\ dedupRuns = 1
    /\ new_jobs_count = 2
    /\ Len(jobs) = 2
    /\ duplicates # EmptyBag

\* The field that joins company_name and role in the hash: the message's
\* timestamp in master.py, the location in main.py
ThirdKeyField(p, job) == IF p = "master" THEN job.date_posted ELSE job.location

\* C27: a candidate reported DUPLICATE has the (company_name, role, third key
\* field) of the stored row whose post_id it met: candidates with different
\* tuples never share a hash input.
C27_HashInputInjective ==
    last.result = "DUPLICATE" =>
        \A i \in 1..Len(jobs) :
            jobs[i].job.post_id = last.job.post_id =>
                /\ jobs[i].job.company_name = last.job.company_name
                /\ jobs[i].job.role = last.job.role
                /\ ThirdKeyField(prog, jobs[i].job) = ThirdKeyField(prog, last.job)

\* C28: insert_job answers False only when a row with the job's post_id is
\* stored: a NOT NULL violation (role, company_name or date_posted missing)
\* is not answered as a duplicate.
C28_FalseOnlyOnConflict ==
    \A c \in DOMAIN conn :
        conn[c].ret = "False" =>
            \E i \in 1..Len(jobs) : jobs[i].job.post_id = conn[c].job.post_id

\* The loop over the messages of a source is not under way
BetweenSources == pc \in {"fetch", "dedup", "summary", "done"}

\* C29 (as amended): new_jobs_count <= total_valid_jobs <=
\* total_messages_processed at every point of master.py's aggregate (main.py
\* keeps no valid counter: new_jobs_count <= total_posts_processed);
\* total_messages_processed never exceeds the number of messages the sources
\* fetched so far returned, falls short of it by the messages the running loop
\* has not reached, and equals it whenever no loop is under way;
\* new_jobs_count equals the number of rows added to the store, which is what
\* the summary reports.
C29_Counters ==
    /\ prog = "master" => (new_jobs_count <= total_valid_jobs
                           /\ total_valid_jobs <= total_messages_processed)
    /\ new_jobs_count <= total_messages_processed
    /\ total_messages_processed <= fetched
    /\ pc = "msg" => total_messages_processed = fetched - Len(messages)
    /\ BetweenSources => total_messages_processed = fetched
    /\ new_jobs_count = Len(jobs)
    /\ summary.emitted => (summary.new = Len(jobs) /\ summary.total = Len(jobs))

\* C29 witness: in the loop over a source that returned two messages, one
\* is processed and stored, one is still to come
C29_Witness ==
    /\ prog = "master"
    /\ pc = "msg"
    /\ fetched = 2
    /\ total_messages_processed = 1
    /\ total_valid_jobs = 1
    /\ new_jobs_count = 1
    /\ Len(jobs) = 1

\* C29 (as claimed): at every point of aggregate new_jobs_count <=
\* total_valid_jobs <= total_messages_processed, total_messages_processed
\* equals the number of messages returned by the sources fetched so far, and
\* new_jobs_count equals the number of rows added to the store.
C29_CountersAtEveryPoint ==
    (prog = "master" /\ pc \in {"fetch", "msg", "summary", "done"}) =>
        /\ new_jobs_count <= total_valid_jobs
        /\ total_valid_jobs <= total_messages_processed
        /\ total_messages_processed = fetched
        /\ new_jobs_count = Len(jobs)

\* C30: however often the deduplication pass has run over an unchanged jobs
\* table, the duplicates table holds at most one link per pair of records:
\* a pass after the first adds nothing.
C30_DedupIdempotent ==
    pc = "passes" =>
        /\ \A l \in BagToSet(duplicates) : CopiesIn(l, duplicates) = 1
        /\ dedupRuns >= 1 => duplicates = deduplicate_jobs(jobs, DefaultThreshold)

====
